---- MODULE Spec2Model ----
(***************************************************************************)
(* A model of homework.py: the workout calculators (Training, Running,     *)
(* SportsWalking, Swimming), the InfoMessage report, the read_package      *)
(* factory, main and the __main__ driver loop.                             *)
(*                                                                         *)
(* Python numbers are modelled as exact rationals n/d in lowest terms      *)
(* (d > 0); the binary rounding error of float arithmetic is not modelled. *)
(* A raised exception is modelled by the `exc` field of a call's result.   *)
(***************************************************************************)
EXTENDS Integers, Sequences, FiniteSets

VARIABLES
    packages,      \* __main__: the list of (workout_type, data) packages
    pos,           \* __main__: 1-based position of the for loop in packages
    workout_type,  \* argument of the last read_package call
    data,          \* argument of the last read_package / constructor call
    training,      \* the Training object last constructed (or NoObject)
    info,          \* the InfoMessage last returned by show_training_info
    output,        \* the lines printed so far on standard output
    exc,           \* the uncaught exception, "none" while there is none
    pc             \* position of the program / of the calling harness

vars == <<packages, pos, workout_type, data, training, info, output, exc, pc>>

----------------------------------------------------------------------------
(* Python numbers                                                          *)

Num(n, d) == [t |-> "num", n |-> n, d |-> d]
None == [t |-> "None", n |-> 0, d |-> 1]
Unset == [t |-> "unset", n |-> 0, d |-> 1]

Whole(k) == Num(k, 1)

Abs(k) == IF k < 0 THEN -k ELSE k

\* In the operators below an operand is bound to its value, x \in {a}, before
\* it is used: Python evaluates the operands of an operator once.

RECURSIVE GCD(_, _)
GCD(a, b) ==
    IF b = 0 THEN a
    ELSE CHOOSE r \in {GCD(x, y) : x \in {b}, y \in {a % b}} : TRUE

\* n/d in lowest terms with a positive denominator (d # 0)
Rat(n, d) ==
    CHOOSE r \in {Num(((IF y < 0 THEN -1 ELSE 1) * x) \div g,
                      ((IF y < 0 THEN -1 ELSE 1) * y) \div g) :
                  <<x, y, g>> \in {<<n, d, GCD(Abs(n), Abs(d))>>}} : TRUE

IsZero(a) == a.n = 0

RAdd(a, b) ==
    CHOOSE r \in {Rat(x.n * y.d + y.n * x.d, x.d * y.d) :
                  x \in {a}, y \in {b}} : TRUE
RSub(a, b) ==
    CHOOSE r \in {Rat(x.n * y.d - y.n * x.d, x.d * y.d) :
                  x \in {a}, y \in {b}} : TRUE
RMul(a, b) ==
    CHOOSE r \in {Rat(x.n * y.n, x.d * y.d) : x \in {a}, y \in {b}} : TRUE
\* a / b, for b # 0
RDiv(a, b) ==
    CHOOSE r \in {Rat(x.n * y.d, x.d * y.n) : x \in {a}, y \in {b}} : TRUE
\* a // b, for b # 0: the floor of the quotient, as a number
RFloorDiv(a, b) ==
    CHOOSE r \in {Whole(q.n \div q.d) : q \in {RDiv(a, b)}} : TRUE
RLess(a, b) == a.n * b.d < b.n * a.d

\* the result of a call: a returned value or a raised exception
Return(v) == [exc |-> "none", val |-> v]
Raise(e) == [exc |-> e, val |-> None]

----------------------------------------------------------------------------
(* class Training and its subclasses                                       *)

M_IN_KM == 1000
MINS_IN_HOURS == 60
Training_LEN_STEP == Num(13, 20)             \* 0.65
Swimming_LEN_STEP == Num(69, 50)             \* 1.38
Running_COEFF_CALORIE_1 == 18
Running_COEFF_CALORIE_2 == 20
SportsWalking_COEFF_CALORIE_1 == Num(7, 200)     \* 0.035
SportsWalking_COEFF_CALORIE_2 == Num(29, 1000)   \* 0.029
Swimming_coeff_calorie_1 == Num(11, 10)      \* 1.1
Swimming_coeff_calorie_2 == 2

NoObject ==
    [cls |-> "", action |-> Unset, duration |-> Unset, weight |-> Unset,
     height |-> Unset, length_pool |-> Unset, count_pool |-> Unset]

\* Training.__init__(self, action, duration, weight)
Training_init(cls, args) ==
    [NoObject EXCEPT !.cls = cls, !.action = args[1], !.duration = args[2],
                     !.weight = args[3]]

\* SportsWalking.__init__(self, action, duration, weight, height)
SportsWalking_init(cls, args) ==
    [Training_init(cls, args) EXCEPT !.height = args[4]]

\* variant: the two pool arguments assigned in the wrong order
Swimming_init_Swapped(cls, args) ==
    [Training_init(cls, args) EXCEPT !.length_pool = args[5],
                                     !.count_pool = args[4]]

\* Swimming.__init__(self, action, duration, weight, length_pool, count_pool)
Swimming_init(cls, args) ==
    [Training_init(cls, args) EXCEPT !.length_pool = args[4],
                                     !.count_pool = args[5]]

\* the number of positional arguments the class's __init__ takes after self
InitArity(cls) ==
    CASE cls = "Swimming" -> 5
      [] cls = "SportsWalking" -> 4
      [] OTHER -> 3

\* variant: surplus positional arguments are dropped instead of refused
Construct_SurplusIgnored(cls, args) ==
    IF Len(args) < InitArity(cls) THEN Raise("TypeError")
    ELSE CASE cls = "Swimming" -> Return(Swimming_init(cls, args))
           [] cls = "SportsWalking" -> Return(SportsWalking_init(cls, args))
           [] OTHER -> Return(Training_init(cls, args))

\* cls(*args): Python raises TypeError unless the positional arguments
\* match the parameters of the __init__ the class resolves to
Construct(cls, args) ==
    IF Len(args) # InitArity(cls) THEN Raise("TypeError")
    ELSE CASE cls = "Swimming" -> Return(Swimming_init(cls, args))
           [] cls = "SportsWalking" -> Return(SportsWalking_init(cls, args))
           [] OTHER -> Return(Training_init(cls, args))

\* variant: Swimming without its own LEN_STEP
LEN_STEP_NotOverridden(self) == Training_LEN_STEP

\* self.LEN_STEP: the class attribute, overridden by Swimming
LEN_STEP(self) ==
    IF self.cls = "Swimming" THEN Swimming_LEN_STEP ELSE Training_LEN_STEP

Training_get_distance(self) ==
    Return(RDiv(RMul(self.action, LEN_STEP(self)), Whole(M_IN_KM)))

get_distance(self) == Training_get_distance(self)

Training_get_mean_speed(self) ==
    LET dist == get_distance(self)
    IN  IF IsZero(self.duration) THEN Raise("ZeroDivisionError")
        ELSE Return(RDiv(dist.val, self.duration))

\* variant: Swimming without its own get_mean_speed
Swimming_get_mean_speed_Inherited(self) == Training_get_mean_speed(self)

Swimming_get_mean_speed(self) ==
    IF IsZero(self.duration) THEN Raise("ZeroDivisionError")
    ELSE Return(RDiv(RDiv(RMul(self.length_pool, self.count_pool),
                          Whole(M_IN_KM)),
                     self.duration))

\* method resolution of self.get_mean_speed()
get_mean_speed(self) ==
    IF self.cls = "Swimming" THEN Swimming_get_mean_speed(self)
    ELSE Training_get_mean_speed(self)

\* the body is `pass`: the call returns None
Training_get_spent_calories(self) == Return(None)

\* variant: the factor MINS_IN_HOURS left out
Running_get_spent_calories_PerHour(self) ==
    LET speed == get_mean_speed(self)
    IN  IF speed.exc # "none" THEN speed
        ELSE Return(
            RMul(RDiv(RMul(RSub(RMul(Whole(Running_COEFF_CALORIE_1),
                                     speed.val),
                                Whole(Running_COEFF_CALORIE_2)),
                           self.weight),
                      Whole(M_IN_KM)),
                 self.duration))

Running_get_spent_calories(self) ==
    LET speed == get_mean_speed(self)
    IN  IF speed.exc # "none" THEN speed
        ELSE Return(
            RMul(RMul(RDiv(RMul(RSub(RMul(Whole(Running_COEFF_CALORIE_1),
                                          speed.val),
                                     Whole(Running_COEFF_CALORIE_2)),
                                self.weight),
                           Whole(M_IN_KM)),
                      self.duration),
                 Whole(MINS_IN_HOURS)))

\* variant: / in place of //
SportsWalking_get_spent_calories_TrueDiv(self) ==
    LET speed == get_mean_speed(self)
    IN  IF speed.exc # "none" THEN speed
        ELSE IF IsZero(self.height) THEN Raise("ZeroDivisionError")
        ELSE Return(
            RMul(RMul(RAdd(RMul(SportsWalking_COEFF_CALORIE_1, self.weight),
                           RMul(RMul(RDiv(RMul(speed.val, speed.val),
                                          self.height),
                                     SportsWalking_COEFF_CALORIE_2),
                                self.weight)),
                      self.duration),
                 Whole(MINS_IN_HOURS)))

SportsWalking_get_spent_calories(self) ==
    LET speed == get_mean_speed(self)
    IN  IF speed.exc # "none" THEN speed
        ELSE IF IsZero(self.height) THEN Raise("ZeroDivisionError")
        ELSE Return(
            RMul(RMul(RAdd(RMul(SportsWalking_COEFF_CALORIE_1, self.weight),
                           RMul(RMul(RFloorDiv(RMul(speed.val, speed.val),
                                               self.height),
                                     SportsWalking_COEFF_CALORIE_2),
                                self.weight)),
                      self.duration),
                 Whole(MINS_IN_HOURS)))

Swimming_get_spent_calories(self) ==
    LET speed == get_mean_speed(self)
    IN  IF speed.exc # "none" THEN speed
        ELSE Return(RMul(RAdd(speed.val, Swimming_coeff_calorie_1),
                         RMul(Whole(Swimming_coeff_calorie_2), self.weight)))

\* method resolution of self.get_spent_calories()
get_spent_calories(self) ==
    CASE self.cls = "Running" -> Running_get_spent_calories(self)
      [] self.cls = "SportsWalking" -> SportsWalking_get_spent_calories(self)
      [] self.cls = "Swimming" -> Swimming_get_spent_calories(self)
      [] OTHER -> Training_get_spent_calories(self)

----------------------------------------------------------------------------
(* class InfoMessage                                                       *)

NoInfo ==
    [training_type |-> "", duration |-> Unset, distance |-> Unset,
     speed |-> Unset, calories |-> Unset]

InfoMessage_init(training_type, duration, distance, speed, calories) ==
    [training_type |-> training_type, duration |-> duration,
     distance |-> distance, speed |-> speed, calories |-> calories]

\* the arguments are evaluated left to right; the first exception propagates
Training_show_training_info(self) ==
    LET dist == get_distance(self)
        speed == get_mean_speed(self)
        cal == get_spent_calories(self)
    IN  IF dist.exc # "none" THEN Raise(dist.exc)
        ELSE IF speed.exc # "none" THEN Raise(speed.exc)
        ELSE IF cal.exc # "none" THEN Raise(cal.exc)
        ELSE Return(InfoMessage_init(self.cls, self.duration, dist.val,
                                     speed.val, cal.val))

\* format(x, '.3f'): x rounded to the nearest thousandth, a tie going to the
\* even neighbour; the numeral is represented by its count of thousandths
Fmt3(x) ==
    LET m == 1000 * x.n
        q == m \div x.d
        r == m - q * x.d
    IN  IF 2 * r < x.d THEN q
        ELSE IF 2 * r > x.d THEN q + 1
        ELSE IF q % 2 = 0 THEN q ELSE q + 1

\* The returned sentence is represented by what the template substitutes: the
\* training type and the four numerals.  None has no '.3f' format: TypeError.
InfoMessage_get_message(self) ==
    IF \E v \in {self.duration, self.distance, self.speed, self.calories} :
           v.t # "num"
    THEN Raise("TypeError")
    ELSE Return([training_type |-> self.training_type,
                 duration |-> Fmt3(self.duration),
                 distance |-> Fmt3(self.distance),
                 speed |-> Fmt3(self.speed),
                 calories |-> Fmt3(self.calories)])

----------------------------------------------------------------------------
(* read_package and main                                                   *)

\* the codes_and_classes dictionary
Codes == {"SWM", "RUN", "WLK"}
codes_and_classes(code) ==
    CASE code = "SWM" -> "Swimming"
      [] code = "RUN" -> "Running"
      [] code = "WLK" -> "SportsWalking"

\* variant: an unknown code falls back to Running (dict.get with a default)
read_package_Fallback(code, values) ==
    Construct(IF code \in {"SWM", "RUN", "WLK"} THEN codes_and_classes(code)
              ELSE "Running",
              values)

\* codes_and_classes[workout_type](*data): the subscript is evaluated first
\* (KeyError for a missing key), then the class is called
read_package(code, values) ==
    IF code \notin Codes THEN Raise("KeyError")
    ELSE Construct(codes_and_classes(code), values)

\* variant: the line is written before what was printed earlier
Stdout_print_Before(out, line) == <<line>> \o out

\* print(line): the line is written after what standard output already holds
Stdout_print(out, line) == Append(out, line)

\* main(training): the line printed, or the exception raised
main(tr) ==
    CHOOSE r \in {IF shown.exc # "none" THEN shown
                  ELSE InfoMessage_get_message(shown.val) :
                  shown \in {Training_show_training_info(tr)}} : TRUE

----------------------------------------------------------------------------
(* Input domains                                                           *)

MaxHalfHours == 2      \* durations range over 0, 1/2, ..., MaxHalfHours/2
MaxValues == 6         \* the longest list of values handed to a constructor
MaxPackages == 3       \* the longest package list the driver is run on

ActionCounts == {Whole(0), Whole(720), Whole(9000), Whole(15000), Whole(20000)}
Durations == {Rat(k, 2) : k \in 0..MaxHalfHours}
Weights == {Whole(75), Whole(80)}
Fourths == {Whole(0), Whole(2), Whole(25), Whole(180)}   \* height, length_pool
Fifths == {Whole(40)}                                    \* count_pool

FullLists ==
    {<<a, d, w, f, c>> : a \in ActionCounts, d \in Durations, w \in Weights,
                         f \in Fourths, c \in Fifths}

\* lists of 2..MaxValues values: prefixes of a full list, or a full list
\* followed by surplus values
DataLists ==
    {SubSeq(l, 1, k) : l \in FullLists, k \in 2..5}
    \cup {l \o [i \in 1..k |-> Whole(1)] : l \in FullLists, k \in 1..(MaxValues - 5)}

CodeInputs == Codes \cup {"XYZ", "swm", "Training"}

\* the packages list of the __main__ block
BuiltIn ==
    << <<"SWM", <<Whole(720), Whole(1), Whole(80), Whole(25), Whole(40)>> >>,
       <<"RUN", <<Whole(15000), Whole(1), Whole(75)>> >>,
       <<"WLK", <<Whole(9000), Whole(1), Whole(75), Whole(180)>> >> >>

PackagePool ==
    {BuiltIn[1], BuiltIn[2], BuiltIn[3],
     <<"XYZ", <<Whole(15000), Whole(1), Whole(75)>> >>,
     <<"RUN", <<Whole(15000), Whole(1)>> >>,
     <<"RUN", <<Whole(15000), Whole(1), Whole(75), Whole(180)>> >>,
     <<"RUN", <<Whole(15000), Whole(0), Whole(75)>> >>,
     <<"SWM", <<Whole(720), Whole(0), Whole(80), Whole(25), Whole(40)>> >>,
     <<"WLK", <<Whole(9000), Whole(1), Whole(75), Whole(0)>> >>}

PackageLists == UNION {[1..n -> PackagePool] : n \in 0..MaxPackages}

----------------------------------------------------------------------------
(* Calls of the module's functions and methods, one call sequence per run  *)

Init ==
    /\ packages = <<>>
    /\ pos = 0
    /\ workout_type = ""
    /\ data = <<>>
    /\ training = NoObject
    /\ info = NoInfo
    /\ output = <<>>
    /\ exc = "none"
    /\ pc = "idle"

\* training = read_package(code, values)
CallReadPackage ==
    /\ pc = "idle"
    /\ \E code \in CodeInputs, values \in DataLists :
         LET built == read_package(code, values)
         IN  /\ workout_type' = code
             /\ data' = values
             /\ IF built.exc = "none"
                THEN training' = built.val /\ exc' = exc /\ pc' = "built"
                ELSE training' = training /\ exc' = built.exc /\ pc' = "raised"
    /\ UNCHANGED <<packages, pos, info, output>>

\* training = Training(*values): the base class, constructed directly
CallTraining ==
    /\ pc = "idle"
    /\ \E values \in DataLists :
         LET built == Construct("Training", values)
         IN  /\ data' = values
             /\ IF built.exc = "none"
                THEN training' = built.val /\ exc' = exc /\ pc' = "built"
                ELSE training' = training /\ exc' = built.exc /\ pc' = "raised"
    /\ UNCHANGED <<packages, pos, workout_type, info, output>>

\* info = training.show_training_info()
CallShowTrainingInfo ==
    /\ pc = "built"
    /\ LET shown == Training_show_training_info(training)
       IN  IF shown.exc = "none"
           THEN info' = shown.val /\ exc' = exc /\ pc' = "shown"
           ELSE info' = info /\ exc' = shown.exc /\ pc' = "raised"
    /\ UNCHANGED <<packages, pos, workout_type, data, training, output>>

\* main(training)
CallMain ==
    /\ pc = "built"
    /\ LET shown == Training_show_training_info(training)
           line == main(training)
       IN  /\ info' = IF shown.exc = "none" THEN shown.val ELSE info
           /\ IF line.exc = "none"
              THEN output' = Stdout_print(output, line.val) /\ exc' = exc
                   /\ pc' = "printed"
              ELSE output' = output /\ exc' = line.exc /\ pc' = "raised"
    /\ UNCHANGED <<packages, pos, workout_type, data, training>>

Next == CallReadPackage \/ CallTraining \/ CallShowTrainingInfo \/ CallMain

Spec == Init /\ [][Next]_vars

----------------------------------------------------------------------------
(* The __main__ block: for workout_type, data in packages: ...             *)

DriverInit ==
    /\ packages \in PackageLists
    /\ pos = 1
    /\ workout_type = ""
    /\ data = <<>>
    /\ training = NoObject
    /\ info = NoInfo
    /\ output = <<>>
    /\ exc = "none"
    /\ pc = "loop"

\* variant: a failing package is skipped and the loop goes on
Iterate_SkipOnError ==
    /\ pc = "loop"
    /\ pos <= Len(packages)
    /\ LET built == read_package(packages[pos][1], packages[pos][2])
           shown == Training_show_training_info(built.val)
           line == main(built.val)
           failed == built.exc # "none" \/ line.exc # "none"
       IN  /\ workout_type' = packages[pos][1]
           /\ data' = packages[pos][2]
           /\ training' = IF built.exc = "none" THEN built.val ELSE training
           /\ info' = IF built.exc = "none" /\ shown.exc = "none"
                      THEN shown.val ELSE info
           /\ output' = IF failed THEN output
                        ELSE Stdout_print(output, line.val)
           /\ pos' = pos + 1
    /\ UNCHANGED <<packages, exc, pc>>

\* one iteration: training = read_package(workout_type, data); main(training).
\* An exception is caught nowhere: it ends the run.
Iterate ==
    /\ pc = "loop"
    /\ pos <= Len(packages)
    /\ LET built == read_package(packages[pos][1], packages[pos][2])
           shown == Training_show_training_info(built.val)
           line == main(built.val)
       IN  /\ workout_type' = packages[pos][1]
           /\ data' = packages[pos][2]
           /\ IF built.exc # "none"
              THEN /\ exc' = built.exc
                   /\ pc' = "aborted"
                   /\ UNCHANGED <<training, info, output, pos>>
              ELSE /\ training' = built.val
                   /\ info' = IF shown.exc = "none" THEN shown.val ELSE info
                   /\ IF line.exc # "none"
                      THEN /\ exc' = line.exc
                           /\ pc' = "aborted"
                           /\ UNCHANGED <<output, pos>>
                      ELSE /\ output' = Stdout_print(output, line.val)
                           /\ pos' = pos + 1
                           /\ UNCHANGED <<exc, pc>>
    /\ UNCHANGED packages

\* the list is exhausted: the program ends normally
Exit ==
    /\ pc = "loop"
    /\ pos > Len(packages)
    /\ pc' = "done"
    /\ UNCHANGED <<packages, pos, workout_type, data, training, info, output, exc>>

DriverNext == Iterate \/ Exit

\* the interpreter keeps executing the loop until it ends or raises
DriverSpec == DriverInit /\ [][DriverNext]_vars /\ WF_vars(DriverNext)

----------------------------------------------------------------------------
(* Properties                                                              *)

\* C1: show_training_info on an instance of the base class Training never
\* produces a report, because its get_spent_calories raises instead of
\* returning.  (The code returns None, and a report is produced.)
C1_BaseNeverReports ==
    training.cls = "Training" => info = NoInfo

\* C2 as stated: the Running workout (15000, 1, 75) reports distance 9.75,
\* mean speed 9.75 and calories of approximately 661.8 (within 0.05).
C2_RunningExampleAsStated ==
    (/\ workout_type = "RUN"
     /\ data = <<Whole(15000), Whole(1), Whole(75)>>
     /\ info # NoInfo)
    => /\ info.distance = Num(39, 4)
       /\ info.speed = Num(39, 4)
       /\ RLess(Num(66175, 100), info.calories)
       /\ RLess(info.calories, Num(66185, 100))

\* C2 amended: the Running workout (15000, 1, 75) reports distance 9.75,
\* mean speed 9.75 and calories (18*9.75-20)*75/1000*1*60 = 699.75.
C2_RunningExample ==
    (/\ workout_type = "RUN"
     /\ data = <<Whole(15000), Whole(1), Whole(75)>>
     /\ info # NoInfo)
    => /\ info.distance = Num(39, 4)
       /\ info.speed = Num(39, 4)
       /\ info.calories = Num(2799, 4)

C2_Witness ==
    /\ pc = "shown"
    /\ workout_type = "RUN"
    /\ data = <<Whole(15000), Whole(1), Whole(75)>>
    /\ info.training_type = "Running"
    /\ info.calories.t = "num"

\* C3: read_package with a recognized code and a number of values other than
\* the variant's arity (RUN 3, WLK 4, SWM 5) raises the argument-count error
\* (TypeError): no calculator is returned, no report made, nothing printed.
C3_WrongCountRaises ==
    LET arity == CASE workout_type = "RUN" -> 3
                   [] workout_type = "WLK" -> 4
                   [] workout_type = "SWM" -> 5
    IN  (/\ pc # "idle"
         /\ workout_type \in {"RUN", "WLK", "SWM"}
         /\ Len(data) # arity)
        => /\ pc = "raised"
           /\ exc = "TypeError"
           /\ training = NoObject
           /\ info = NoInfo
           /\ output = <<>>

C3_Witness ==
    /\ pc = "raised"
    /\ exc = "TypeError"
    /\ workout_type = "RUN"
    /\ Len(data) = 2

\* C4: read_package with a code outside {SWM, RUN, WLK} raises the
\* unrecognized-code error (KeyError) whatever the values: no calculator is
\* constructed, no fallback variant returned.
C4_UnknownCodeRaises ==
    (/\ pc # "idle"
     /\ workout_type \in {"XYZ", "swm", "Training"})
    => /\ pc = "raised"
       /\ exc = "KeyError"
       /\ training = NoObject
       /\ info = NoInfo
       /\ output = <<>>

C4_Witness ==
    /\ pc = "raised"
    /\ exc = "KeyError"
    /\ workout_type = "XYZ"
    /\ Len(data) = 3

\* C5: read_package with a recognized code and the right number of values
\* returns the matching variant with the values assigned positionally
\* (action, duration, weight, then height, or length_pool, count_pool), and
\* a report made from it carries the variant's name and the input duration.
C5_PositionalConstruction ==
    LET arity == CASE workout_type = "RUN" -> 3
                   [] workout_type = "WLK" -> 4
                   [] workout_type = "SWM" -> 5
        name == CASE workout_type = "RUN" -> "Running"
                  [] workout_type = "WLK" -> "SportsWalking"
                  [] workout_type = "SWM" -> "Swimming"
    IN  (/\ pc # "idle"
         /\ workout_type \in {"RUN", "WLK", "SWM"}
         /\ Len(data) = arity)
        => /\ training.cls = name
           /\ training.action = data[1]
           /\ training.duration = data[2]
           /\ training.weight = data[3]
           /\ workout_type = "WLK" => training.height = data[4]
           /\ workout_type = "SWM" => /\ training.length_pool = data[4]
                                      /\ training.count_pool = data[5]
           /\ info # NoInfo => /\ info.training_type = name
                               /\ info.duration = data[2]

C5_Witness ==
    /\ pc = "shown"
    /\ workout_type = "SWM"
    /\ data = <<Whole(720), Whole(1), Whole(80), Whole(25), Whole(40)>>
    /\ training.length_pool = Whole(25)
    /\ training.count_pool = Whole(40)
    /\ info.training_type = "Swimming"
    /\ info.duration = Whole(1)

\* C6: the run on the built-in package list never aborts, prints the
\* Swimming, Running and SportsWalking lines in that order, each once, keeps
\* stepping until it is done, and is done with exactly these three lines.
C6_BuiltInRun ==
    LET expected ==
          << [training_type |-> "Swimming", duration |-> 1000,
              distance |-> 994, speed |-> 1000, calories |-> 336000],
             [training_type |-> "Running", duration |-> 1000,
              distance |-> 9750, speed |-> 9750, calories |-> 699750],
             [training_type |-> "SportsWalking", duration |-> 1000,
              distance |-> 5850, speed |-> 5850, calories |-> 157500] >>
    IN  packages = BuiltIn =>
            /\ pc # "aborted"
            /\ exc = "none"
            /\ Len(output) = pos - 1
            /\ Len(output) <= 3
            /\ output = SubSeq(expected, 1, Len(output))
            /\ pc = "done" => output = expected
            /\ pc = "done" \/ ENABLED DriverNext

C6_Witness ==
    /\ packages = BuiltIn
    /\ pc = "done"
    /\ Len(output) = 3
    /\ output[1].training_type = "Swimming"
    /\ output[3].training_type = "SportsWalking"

\* C7: in every report, distance = action * step_length / 1000 with
\* step_length 0.65 (13/20) for Running and SportsWalking and 1.38 (69/50)
\* for Swimming: a function of the action count and the variant alone.
C7_Distance ==
    (info # NoInfo /\ training.cls \in {"Running", "SportsWalking", "Swimming"})
    => LET step == IF training.cls = "Swimming" THEN <<69, 50>> ELSE <<13, 20>>
       IN  /\ info.distance.t = "num"
           /\ info.distance.n * (step[2] * 1000 * training.action.d)
                = training.action.n * step[1] * info.distance.d

C7_Witness ==
    /\ pc = "shown"
    /\ training.cls = "Swimming"
    /\ training.action = Whole(720)
    /\ training.duration = Num(1, 2)
    /\ info.distance = Num(621, 625)

\* C8: a Swimming report has mean speed length_pool * count_pool / 1000 /
\* duration and calories (mean_speed + 1.1) * 2 * weight, whatever the action
\* count; for (720, 1, 80, 25, 40): mean speed 1.0 and calories 336.0.
C8_Swimming ==
    (info # NoInfo /\ training.cls = "Swimming")
    => LET speed == RDiv(RDiv(RMul(training.length_pool, training.count_pool),
                              Whole(1000)),
                         training.duration)
       IN  /\ info.speed = speed
           /\ info.calories = RMul(RMul(RAdd(speed, Num(11, 10)), Whole(2)),
                                   training.weight)
           /\ data = <<Whole(720), Whole(1), Whole(80), Whole(25), Whole(40)>>
              => info.speed = Whole(1) /\ info.calories = Whole(336)

\* the reported speed differs from the reported distance over the duration
C8_Witness ==
    /\ pc = "shown"
    /\ training.cls = "Swimming"
    /\ data = <<Whole(720), Whole(1), Whole(80), Whole(25), Whole(40)>>
    /\ info.speed = Whole(1)
    /\ info.speed # RDiv(info.distance, training.duration)

\* C9: a SportsWalking report has calories
\* (0.035 * weight + floor(mean_speed^2 / height) * 0.029 * weight)
\* * duration * 60 with mean_speed = action * 0.65 / 1000 / duration, the
\* floor taken of the quotient alone; when mean_speed^2 < height they are
\* 0.035 * weight * duration * 60; for (9000, 1, 75, 180) they are 157.5.
C9_SportsWalking ==
    (info # NoInfo /\ training.cls = "SportsWalking")
    => LET speed == RDiv(RDiv(RMul(training.action, Num(13, 20)), Whole(1000)),
                         training.duration)
           sq == RMul(speed, speed)
           quot == (sq.n * training.height.d) \div (sq.d * training.height.n)
           base == RMul(Num(35, 1000), training.weight)
           perHour == RAdd(base, RMul(RMul(Whole(quot), Num(29, 1000)),
                                      training.weight))
       IN  /\ training.height.n > 0 /\ training.duration.n > 0
           /\ info.speed = speed
           /\ info.calories = RMul(RMul(perHour, training.duration), Whole(60))
           /\ RLess(sq, training.height)
              => info.calories = RMul(RMul(base, training.duration), Whole(60))
           /\ data = <<Whole(9000), Whole(1), Whole(75), Whole(180)>>
              => info.calories = Num(315, 2)

\* the quotient 169 / 2 is not whole: the floor 84 enters the calories
C9_Witness ==
    /\ pc = "shown"
    /\ training.cls = "SportsWalking"
    /\ data = <<Whole(20000), Whole(1), Whole(75), Whole(2)>>
    /\ info.speed = Whole(13)
    /\ info.calories = Num(22239, 2)

\* C10: when package k is the first of the driver's list that fails, the run
\* aborts at k with exactly the lines of packages 1..k-1 printed, in order;
\* no line of package k or of a later package is ever printed, and the run
\* does not stop short of the abort.  A package with an unknown code, a wrong
\* number of values or a zero duration fails.
C10_AbortAtFirstFailure ==
    LET Fails(p) ==
            \/ read_package(p[1], p[2]).exc # "none"
            \/ main(read_package(p[1], p[2]).val).exc # "none"
        Listed(p) ==
            \/ p[1] \notin {"SWM", "RUN", "WLK"}
            \/ Len(p[2]) # (CASE p[1] = "RUN" -> 3 [] p[1] = "WLK" -> 4
                              [] p[1] = "SWM" -> 5)
            \/ p[2][2].n = 0
        failing == {i \in 1..Len(packages) : Fails(packages[i])}
        k == CHOOSE i \in failing : \A j \in failing : i <= j
        Line(i) == main(read_package(packages[i][1], packages[i][2]).val).val
    IN  /\ \A i \in 1..Len(packages) : Listed(packages[i]) => i \in failing
        /\ Len(output) <= Len(packages)
        /\ \A i \in 1..Len(output) : i \notin failing /\ output[i] = Line(i)
        /\ failing # {} => /\ Len(output) <= k - 1
                           /\ pc # "done"
                           /\ pc = "aborted" \/ ENABLED DriverNext
                           /\ pc = "aborted" => /\ pos = k
                                                /\ Len(output) = k - 1
                                                /\ exc # "none"
        /\ failing = {} => pc # "aborted"

\* the run aborted at the second package; the third, valid one was not run
C10_Witness ==
    /\ pc = "aborted"
    /\ Len(packages) = 3
    /\ pos = 2
    /\ Len(output) = 1
    /\ packages[2][1] = "XYZ"
    /\ packages[3] = BuiltIn[3]

====
